---- MODULE Spec2Model ----
(***************************************************************************)
(* A model of app.py, the text-to-speech gateway: the shared token cache   *)
(* of TextToSpeechAPI (azure_token, token_expiry), the two provider        *)
(* adapters and the four request handlers.  Each worker of the hosting     *)
(* HTTP server runs one handler at a time; a handler is cut into steps at  *)
(* its upstream calls and at its accesses to the shared cache, so that     *)
(* two workers interleave exactly where the code lets them.                *)
(*                                                                         *)
(* Time is counted in minutes.  Upstream services answer within their      *)
(* contract: any status, or no answer at all (a transport error); a 200    *)
(* of issueToken carries a non-empty token text, and every entry of a 200  *)
(* of voices/list has a 'Locale' string.                                   *)
(***************************************************************************)
EXTENDS Naturals, Sequences, FiniteSets, TLC

\* Bounds of the model.
MaxTime == 10
MaxRequests == 2
MaxCatalog == 12

\* Constants of the program.
TOKEN_TTL == 9
MAX_TEXT_LEN == 1000
MAX_VOICES == 10

VARIABLES
    AZURE_SPEECH_KEY,   \* os.getenv('AZURE_SPEECH_KEY'): None or a string
    USE_FREE_TTS,       \* the free-tier override flag
    now,                \* datetime.now(), in minutes
    azure_token,        \* tts_api.azure_token: None or the token text
    token_expiry,       \* tts_api.token_expiry: None or an instant
    workers,            \* the workers of the HTTP server that serve requests
    pc,                 \* where each worker stands in its handler
    req,                \* the request each worker serves
    route,              \* the provider path and adapter call of the request
    token,              \* the local `token` of the adapter or of /voices
    voices,             \* the local `voices` of /voices: the upstream catalog
    resp,               \* the response of the request
    calls,              \* history: upstream calls made for the request, per
                        \* endpoint, and how many of them did not answer 200
    call,               \* history: the worker's get_azure_token call
    stored_at,          \* history: per issued token, when line 42 ran for it
    requests            \* number of requests received so far

vars == <<AZURE_SPEECH_KEY, USE_FREE_TTS, now, azure_token, token_expiry,
          workers, pc, req, route, token, voices, resp, calls, call,
          stored_at, requests>>

config == <<AZURE_SPEECH_KEY, USE_FREE_TTS, workers>>
cache == <<azure_token, token_expiry>>

----------------------------------------------------------------------------
\* Python values.

None == << >>
Some(v) == <<v>>
Val(o) == o[1]

\* bool(s) of an optional string: None and '' are falsy.
Truthy(o) == o # None /\ Val(o) # ""

\* A text of n characters.
RECURSIVE Text(_)
Text(n) ==
    IF n = 0 THEN ""
    ELSE LET half == Text(n \div 2)
         IN  IF n % 2 = 0 THEN half \o half ELSE half \o half \o "a"

\* s.startswith(p)
StartsWith(s, p) == Len(s) >= Len(p) /\ SubSeq(s, 1, Len(p)) = p

Workers == {1, 2}
TokenPcs == {"token_check", "token_issue", "token_expiry", "token_return"}

\* What an upstream call can come to: an exception of requests (no answer),
\* or an answer with a status code.
Outcomes ==
    {[raised |-> TRUE, status_code |-> 0]}
        \cup {[raised |-> FALSE, status_code |-> s] : s \in {200, 401}}

NoRequest == [kind |-> "none", id |-> 0]
NoRoute == [path |-> "none", adapter |-> "none", text |-> "", voice |-> ""]
NoResponse == [status |-> 0, body |-> << >>]
NoCalls == [issue |-> 0, azure |-> 0, free |-> 0, voices |-> 0, failed |-> 0]

----------------------------------------------------------------------------
\* app.py:13-22: the configuration is read once, the cache starts empty.

Configured ==
    /\ AZURE_SPEECH_KEY \in {None, Some(""), Some("key")}
    /\ USE_FREE_TTS \in BOOLEAN

TextToSpeechAPI_init ==
    /\ azure_token = None
    /\ token_expiry = None

Idle ==
    /\ pc = [c \in Workers |-> "idle"]
    /\ req = [c \in Workers |-> NoRequest]
    /\ route = [c \in Workers |-> NoRoute]
    /\ token = [c \in Workers |-> None]
    /\ voices = [c \in Workers |-> None]
    /\ resp = [c \in Workers |-> NoResponse]
    /\ calls = [c \in Workers |-> NoCalls]
    /\ call = [c \in Workers |-> None]
    /\ requests = 0

\* One worker: requests are served one after the other, from the start of
\* the process on.
Init ==
    /\ Configured
    /\ TextToSpeechAPI_init
    /\ stored_at = << >>
    /\ now = 0
    /\ workers = {1}
    /\ Idle

\* Two workers: requests are served concurrently.  The workers start
\* TOKEN_TTL minutes into the life of the process, when the cache is still
\* empty, or holds the token of a request served in the first minute, which
\* expires now.
InitConc ==
    /\ Configured
    /\ now = TOKEN_TTL
    /\ \/ /\ TextToSpeechAPI_init
          /\ stored_at = << >>
       \/ /\ Truthy(AZURE_SPEECH_KEY) /\ ~USE_FREE_TTS
          /\ azure_token = Some(1)
          /\ token_expiry = Some(TOKEN_TTL)
          /\ stored_at = <<Some(0)>>
    /\ workers = Workers
    /\ Idle

----------------------------------------------------------------------------
\* The steps every handler shares.

\* A worker is free to take a request.
Idling(c) ==
    /\ c \in workers
    /\ pc[c] = "idle"
    /\ requests < MaxRequests

\* A worker takes a new request.
Receive(c, r) ==
    /\ Idling(c)
    /\ requests' = requests + 1
    /\ req' = [req EXCEPT ![c] = r @@ [id |-> requests + 1]]
    /\ voices' = [voices EXCEPT ![c] = None]
    /\ calls' = [calls EXCEPT ![c] = NoCalls]
    /\ call' = [call EXCEPT ![c] = None]

\* The handler returns a response; its locals are gone.
Return(c, status, body) ==
    /\ resp' = [resp EXCEPT ![c] = [status |-> status, body |-> body]]
    /\ pc' = [pc EXCEPT ![c] = "idle"]
    /\ token' = [token EXCEPT ![c] = None]

\* jsonify({'error': str(e)}), 500
Error500(c, message) == Return(c, 500, [error |-> message])

\* response.status_code == 200, of a call that was answered at all.
Ok(o) == ~o.raised /\ o.status_code = 200

\* History: one more upstream call for the request of worker c.
Called(c, endpoint, o) ==
    calls' = [calls EXCEPT ![c] =
                [@ EXCEPT ![endpoint] = @ + 1,
                          !.failed = IF Ok(o) THEN @ ELSE @ + 1]]

\* str(e) of what an upstream call that did not answer 200 raises.
StatusText(o) ==
    IF o.raised THEN "ConnectionError" ELSE ToString(o.status_code)

Tick ==
    /\ now < MaxTime
    /\ now' = now + 1
    /\ UNCHANGED <<config, cache, pc, req, route, token, voices, resp, calls,
                   call, stored_at, requests>>

----------------------------------------------------------------------------
\* TextToSpeechAPI.get_azure_token, app.py:24-45.

\* An exception that leaves get_azure_token: synthesize_speech_azure wraps it
\* (app.py:74-75) and the handler answers 500 (app.py:143-144, 174-175);
\* /voices answers 500 with the message as it is (app.py:203-204).
TokenRaise(c, message) ==
    IF req[c].kind = "GET /voices"
    THEN Error500(c, message)
    ELSE Error500(c, "Azure synthesis failed: " \o message)

\* A variant of TokenIsValid: the token still counts at its expiry instant.
TokenIsValid_inclusive ==
    /\ azure_token # None
    /\ token_expiry # None
    /\ now <= Val(token_expiry)

\* app.py:29: self.azure_token and self.token_expiry
\*            and datetime.now() < self.token_expiry
\* A token text is a non-empty string and a datetime is truthy, so each of
\* the first two tests is a test against None.
TokenIsValid ==
    /\ azure_token # None
    /\ token_expiry # None
    /\ now < Val(token_expiry)

\* History: the call of another worker that is inside get_azure_token, past
\* its own test of the cache, which found no valid token (0: there is none).
Peer(c) ==
    LET inside == {o \in workers \ {c} :
                     /\ pc[o] \in TokenPcs \ {"token_check"}
                     /\ call[o] # None
                     /\ Val(call[o]).miss}
    IN  IF inside = {} THEN 0 ELSE req[CHOOSE o \in inside : TRUE].id

\* A variant of get_azure_token_check: the cache is never used.
get_azure_token_check_uncached(c) ==
    /\ c \in workers
    /\ pc[c] = "token_check"
    /\ call' = [call EXCEPT ![c] =
                  Some([at |-> now, tok |-> azure_token, exp |-> token_expiry,
                        miss |-> ~TokenIsValid, peer |-> Peer(c), got |-> 0])]
    /\ IF ~Truthy(AZURE_SPEECH_KEY)
       THEN /\ TokenRaise(c, "Azure Speech Key not configured")
       ELSE /\ pc' = [pc EXCEPT ![c] = "token_issue"]
            /\ UNCHANGED <<resp, token>>
    /\ UNCHANGED <<config, now, cache, req, route, voices, calls, stored_at,
                   requests>>

\* app.py:26-30: the configuration test and the test of the cache.  The
\* fields are read one after the other; every order of these reads against
\* another worker's writes gives a result this one step gives before or
\* after that write, since a field only goes from None to a value, or from
\* an expiry to a later one.
get_azure_token_check(c) ==
    /\ c \in workers
    /\ pc[c] = "token_check"
    /\ call' = [call EXCEPT ![c] =
                  Some([at |-> now, tok |-> azure_token, exp |-> token_expiry,
                        miss |-> ~TokenIsValid, peer |-> Peer(c), got |-> 0])]
    /\ IF ~Truthy(AZURE_SPEECH_KEY)
       THEN /\ TokenRaise(c, "Azure Speech Key not configured")
       ELSE /\ pc' = [pc EXCEPT ![c] =
                        IF TokenIsValid THEN "token_return" ELSE "token_issue"]
            /\ UNCHANGED <<resp, token>>
    /\ UNCHANGED <<config, now, cache, req, route, voices, calls, stored_at,
                   requests>>

\* A variant of get_azure_token_post: a failed issuance empties the cache.
get_azure_token_post_clearing(c, o) ==
    /\ c \in workers
    /\ pc[c] = "token_issue"
    /\ Called(c, "issue", o)
    /\ IF Ok(o)
       THEN /\ azure_token' = Some(Len(stored_at) + 1)
            /\ stored_at' = Append(stored_at, None)
            /\ call' = [call EXCEPT ![c] =
                          Some([Val(@) EXCEPT !.got = Len(stored_at) + 1])]
            /\ pc' = [pc EXCEPT ![c] = "token_expiry"]
            /\ UNCHANGED <<token_expiry, resp, token>>
       ELSE /\ TokenRaise(c, IF o.raised
                              THEN StatusText(o)
                              ELSE "Failed to get Azure token: " \o StatusText(o))
            /\ azure_token' = None
            /\ token_expiry' = None
            /\ UNCHANGED <<stored_at, call>>
    /\ UNCHANGED <<config, now, req, route, voices, requests>>

\* app.py:38-40, 44-45: the issuance call.  On 200 the token text, here the
\* number of the issuance, is stored; the expiry is stored by the next
\* statement (app.py:42).  Any other outcome raises and stores nothing.
get_azure_token_post(c, o) ==
    /\ c \in workers
    /\ pc[c] = "token_issue"
    /\ Called(c, "issue", o)
    /\ IF Ok(o)
       THEN /\ azure_token' = Some(Len(stored_at) + 1)
            /\ stored_at' = Append(stored_at, None)
            /\ call' = [call EXCEPT ![c] =
                          Some([Val(@) EXCEPT !.got = Len(stored_at) + 1])]
            /\ pc' = [pc EXCEPT ![c] = "token_expiry"]
            /\ UNCHANGED <<token_expiry, resp, token>>
       ELSE /\ TokenRaise(c, IF o.raised
                              THEN StatusText(o)
                              ELSE "Failed to get Azure token: " \o StatusText(o))
            /\ UNCHANGED <<cache, stored_at, call>>
    /\ UNCHANGED <<config, now, req, route, voices, requests>>

\* The steps with their upstream answers.
get_azure_token_issue(c) ==
    /\ c \in workers
    /\ pc[c] = "token_issue"
    /\ \E o \in Outcomes : get_azure_token_post(c, o)

\* app.py:42: self.token_expiry = datetime.now() + timedelta(minutes=9)
get_azure_token_expiry(c) ==
    /\ c \in workers
    /\ pc[c] = "token_expiry"
    /\ token_expiry' = Some(now + TOKEN_TTL)
    /\ stored_at' = [stored_at EXCEPT ![Val(call[c]).got] = Some(now)]
    /\ pc' = [pc EXCEPT ![c] = "token_return"]
    /\ UNCHANGED <<config, now, azure_token, req, route, token, voices, resp,
                   calls, call, requests>>

\* app.py:30, 43: return self.azure_token, read from the shared field, to
\* synthesize_speech_azure (app.py:50) or to /voices (app.py:187).
get_azure_token_return(c) ==
    /\ c \in workers
    /\ pc[c] = "token_return"
    /\ token' = [token EXCEPT ![c] = azure_token]
    /\ pc' = [pc EXCEPT ![c] =
                IF req[c].kind = "GET /voices" THEN "voices_get" ELSE "azure_post"]
    /\ UNCHANGED <<config, now, cache, req, route, voices, resp, calls, call,
                   stored_at, requests>>

----------------------------------------------------------------------------
\* The provider adapters, app.py:47-100.

\* The routes a handler can take: Primary calls synthesize_speech_azure (or,
\* for /voices, the upstream catalog), Fallback calls synthesize_speech_free
\* (or answers the placeholder).
Primary(text, voice) ==
    [path |-> "Primary", adapter |-> "synthesize_speech_azure",
     text |-> text, voice |-> voice]
Fallback(text) ==
    [path |-> "Fallback", adapter |-> "synthesize_speech_free",
     text |-> text, voice |-> ""]

\* base64.b64encode(audio_data).decode('utf-8')
b64encode(bytes) == "b64:" \o bytes

\* app.py:171: 'voice': voice if not USE_FREE_TTS else 'free-tts'
VoiceLabel(voice) == IF ~USE_FREE_TTS THEN voice ELSE "free-tts"

\* app.py:136-141 and 164-172: what the handler does with the audio.
SpeechSuccess(c, audio_data) ==
    IF req[c].kind = "GET /speech"
    THEN Return(c, 200, [mimetype |-> "audio/mpeg", data |-> audio_data])
    ELSE Return(c, 200, [status |-> "success",
                         text |-> req[c].text,
                         audio_format |-> "mp3",
                         audio_data |-> b64encode(audio_data),
                         voice |-> VoiceLabel(req[c].voice)])

\* A variant of synthesize_speech_azure_post: when Azure fails, the request
\* falls over to the free provider.
synthesize_speech_azure_post_fallover(c, o) ==
    /\ c \in workers
    /\ pc[c] = "azure_post"
    /\ Called(c, "azure", o)
    /\ IF Ok(o)
       THEN SpeechSuccess(c, "ID3:azure")
       ELSE /\ pc' = [pc EXCEPT ![c] = "free_get"]
            /\ UNCHANGED <<resp, token>>
    /\ UNCHANGED <<config, now, cache, req, route, voices, call, stored_at,
                   requests>>

\* app.py:68-75: the synthesis call of synthesize_speech_azure; whatever is
\* raised is wrapped and leaves through the handler's except (500).
synthesize_speech_azure_post(c, o) ==
    /\ c \in workers
    /\ pc[c] = "azure_post"
    /\ Called(c, "azure", o)
    /\ IF Ok(o)
       THEN SpeechSuccess(c, "ID3:azure")
       ELSE Error500(c, "Azure synthesis failed: "
                          \o (IF o.raised THEN StatusText(o)
                              ELSE "Azure API error: " \o StatusText(o)))
    /\ UNCHANGED <<config, now, cache, req, route, voices, call, stored_at,
                   requests>>

\* app.py:77-100: synthesize_speech_free, one unauthenticated GET.
synthesize_speech_free_get(c, o) ==
    /\ c \in workers
    /\ pc[c] = "free_get"
    /\ Called(c, "free", o)
    /\ IF Ok(o)
       THEN SpeechSuccess(c, "ID3:free")
       ELSE Error500(c, "Free TTS failed: "
                          \o (IF o.raised THEN StatusText(o)
                              ELSE "Free TTS error: " \o StatusText(o)))
    /\ UNCHANGED <<config, now, cache, req, route, voices, call, stored_at,
                   requests>>

synthesize_speech_azure_call(c) ==
    /\ c \in workers
    /\ pc[c] = "azure_post"
    /\ \E o \in Outcomes : synthesize_speech_azure_post(c, o)

synthesize_speech_free_call(c) ==
    /\ c \in workers
    /\ pc[c] = "free_get"
    /\ \E o \in Outcomes : synthesize_speech_free_get(c, o)

----------------------------------------------------------------------------
\* GET /speech, app.py:117-144.

\* app.py:130: USE_FREE_TTS or not AZURE_SPEECH_KEY
speech_uses_free == USE_FREE_TTS \/ ~Truthy(AZURE_SPEECH_KEY)

\* The handler up to its adapter call: the validation (app.py:120-126) and
\* the choice of the provider (app.py:130-133).  synthesize_speech_azure
\* starts with get_azure_token (app.py:50).
Dispatch(c, uses_free, text, voice) ==
    /\ resp' = [resp EXCEPT ![c] = NoResponse]
    /\ UNCHANGED token
    /\ IF uses_free
       THEN /\ route' = [route EXCEPT ![c] = Fallback(text)]
            /\ pc' = [pc EXCEPT ![c] = "free_get"]
       ELSE /\ route' = [route EXCEPT ![c] = Primary(text, voice)]
            /\ pc' = [pc EXCEPT ![c] = "token_check"]

Reject(c, message) ==
    /\ Return(c, 400, [error |-> message])
    /\ route' = [route EXCEPT ![c] = NoRoute]

\* A variant of TooLong: a text of exactly MAX_TEXT_LEN characters is too long.
TooLong_inclusive(text) == Len(text) >= MAX_TEXT_LEN

\* app.py:125: len(text) > 1000
TooLong(text) == Len(text) > MAX_TEXT_LEN

\* arg: the query parameter 'text', None when the request has none.
text_to_speech(c, arg) ==
    LET text == IF arg = None THEN "" ELSE Val(arg)
    IN  /\ Receive(c, [kind |-> "GET /speech", arg |-> arg, text |-> text,
                       voice |-> "en-US-JennyNeural"])
        /\ IF text = ""
           THEN Reject(c, "No text provided. Use ?text=Your+message")
           ELSE IF TooLong(text)
           THEN Reject(c, "Text too long. Maximum 1000 characters.")
           ELSE Dispatch(c, speech_uses_free, text, "en-US-JennyNeural")
        /\ UNCHANGED <<config, now, cache, stored_at>>

----------------------------------------------------------------------------
\* POST /speech, app.py:146-175.

\* app.py:158: USE_FREE_TTS or not AZURE_SPEECH_KEY
post_uses_free == USE_FREE_TTS \/ ~Truthy(AZURE_SPEECH_KEY)

\* data: request.get_json(), None or a dict (a record of its keys).
text_to_speech_post(c, data) ==
    IF data = None \/ DOMAIN Val(data) = {} \/ "text" \notin DOMAIN Val(data)
    THEN /\ Receive(c, [kind |-> "POST /speech", arg |-> data, text |-> "",
                        voice |-> ""])
         /\ Reject(c, "No text provided in JSON body")
         /\ UNCHANGED <<config, now, cache, stored_at>>
    ELSE LET text == Val(data).text
             voice == IF "voice" \in DOMAIN Val(data)
                      THEN Val(data).voice ELSE "en-US-JennyNeural"
         IN  /\ Receive(c, [kind |-> "POST /speech", arg |-> data,
                            text |-> text, voice |-> voice])
             /\ Dispatch(c, post_uses_free, text, voice)
             /\ UNCHANGED <<config, now, cache, stored_at>>

----------------------------------------------------------------------------
\* GET /voices, app.py:177-204.

\* app.py:180: USE_FREE_TTS or not AZURE_SPEECH_KEY
voices_uses_free == USE_FREE_TTS \/ ~Truthy(AZURE_SPEECH_KEY)

\* app.py:180-187: the placeholder, or on to get_azure_token.
get_available_voices(c) ==
    /\ Receive(c, [kind |-> "GET /voices", arg |-> None, text |-> "",
                   voice |-> ""])
    /\ IF voices_uses_free
       THEN /\ Return(c, 200,
                 [message |-> "Using free TTS service - voice selection not available",
                  default_voice |-> "free-tts"])
            /\ route' = [route EXCEPT ![c] =
                           [NoRoute EXCEPT !.path = "Fallback"]]
       ELSE /\ resp' = [resp EXCEPT ![c] = NoResponse]
            /\ UNCHANGED token
            /\ route' = [route EXCEPT ![c] =
                           [NoRoute EXCEPT !.path = "Primary"]]
            /\ pc' = [pc EXCEPT ![c] = "token_check"]
    /\ UNCHANGED <<config, now, cache, stored_at>>

\* A variant of english_voices: the prefix is tested without its hyphen.
english_voices_loose(catalog) ==
    SelectSeq(catalog, LAMBDA v : StartsWith(v.Locale, "en"))

\* app.py:198: [v for v in voices if v['Locale'].startswith('en-')]
english_voices(catalog) ==
    SelectSeq(catalog, LAMBDA v : StartsWith(v.Locale, "en-"))

\* app.py:199: english_voices[:10]
FirstVoices(list) ==
    SubSeq(list, 1, IF Len(list) < MAX_VOICES THEN Len(list) ELSE MAX_VOICES)

\* app.py:194-204: the catalog call and the answer made of it.
voices_get(c, o, catalog) ==
    /\ c \in workers
    /\ pc[c] = "voices_get"
    /\ Called(c, "voices", o)
    /\ IF o.raised
       THEN /\ Error500(c, StatusText(o))
            /\ UNCHANGED voices
       ELSE IF o.status_code = 200
       THEN /\ voices' = [voices EXCEPT ![c] = Some(catalog)]
            /\ Return(c, 200, FirstVoices(english_voices(catalog)))
       ELSE /\ Error500(c, "Failed to fetch voices")
            /\ UNCHANGED voices
    /\ UNCHANGED <<config, now, cache, req, route, call, stored_at,
                   requests>>

voices_call(c, catalogs) ==
    /\ c \in workers
    /\ pc[c] = "voices_get"
    /\ \E o \in Outcomes, catalog \in catalogs : voices_get(c, o, catalog)

----------------------------------------------------------------------------
\* GET /health, app.py:206-212.

\* A variant of using_free_tts: only the override flag is reported.
using_free_tts_flag_only == USE_FREE_TTS

\* app.py:211: USE_FREE_TTS or not AZURE_SPEECH_KEY
using_free_tts == USE_FREE_TTS \/ ~Truthy(AZURE_SPEECH_KEY)

health_check(c) ==
    /\ Receive(c, [kind |-> "GET /health", arg |-> None, text |-> "",
                   voice |-> ""])
    /\ Return(c, 200, [status |-> "healthy",
                       service |-> "Text-to-Speech API",
                       using_free_tts |-> using_free_tts])
    /\ route' = [route EXCEPT ![c] = NoRoute]
    /\ UNCHANGED <<config, now, cache, stored_at>>

----------------------------------------------------------------------------
\* The requests and the upstream answers the model is run on.

TextLens ==
    {0, 1, 2, MAX_TEXT_LEN - 1, MAX_TEXT_LEN, MAX_TEXT_LEN + 1, 2 * MAX_TEXT_LEN}
Texts == {Text(n) : n \in TextLens}
VoiceNames == {"en-GB-RyanNeural"}

GetArgs == {None} \cup {Some(t) : t \in Texts}

PostData ==
    {None, Some(<< >>)}
        \cup {Some([voice |-> v]) : v \in VoiceNames}
        \cup {Some([text |-> t]) : t \in Texts}
        \cup {Some([text |-> t, voice |-> v]) : t \in Texts, v \in VoiceNames}

\* A catalog of voices/list with the given locales, in this order.
Catalog(locales) ==
    [i \in 1..Len(locales) |-> [ShortName |-> i, Locale |-> locales[i]]]

\* 15 entries, 12 of them English.
SampleLocales ==
    <<"en-US", "de-DE", "en-GB", "en-AU", "en-US", "fr-FR", "en-IN", "en-CA",
      "en-US", "en-GB", "en", "en-NZ", "en-ZA", "en-IE", "en-US">>

SampleCatalogs == {Catalog(<< >>), Catalog(SampleLocales)}

\* Pairs of locales: an English one and one that is not.
LocalePairs ==
    {{"en-US", "de-DE"}, {"en-GB", "en"}, {"en-", "EN-US"}, {"en-AU", "xen-"}}

\* GET /voices answered from any catalog of up to MaxCatalog entries over
\* the two locales of one pair.
voices_call_any(c) ==
    /\ c \in workers
    /\ pc[c] = "voices_get"
    /\ \E o \in Outcomes :
          IF Ok(o)
          THEN \E n \in 0..MaxCatalog, P \in LocalePairs :
                  \E locales \in [1..n -> P] : voices_get(c, o, Catalog(locales))
          ELSE voices_get(c, o, Catalog(<< >>))

----------------------------------------------------------------------------
\* The next-state relations and the specifications.

TokenStep(c) ==
    \/ get_azure_token_check(c)
    \/ get_azure_token_issue(c)
    \/ get_azure_token_expiry(c)
    \/ get_azure_token_return(c)

AdapterStep(c) ==
    \/ synthesize_speech_azure_call(c)
    \/ synthesize_speech_free_call(c)

\* The requests that use the token cache, as time passes.
Next ==
    \/ Tick
    \/ \E c \in Workers :
          \/ text_to_speech(c, Some(Text(1)))
          \/ Idling(c) /\ \E v \in VoiceNames :
                text_to_speech_post(c, Some([text |-> Text(1), voice |-> v]))
          \/ get_available_voices(c)
          \/ TokenStep(c)
          \/ AdapterStep(c)
          \/ voices_call(c, SampleCatalogs)

\* The same with two workers in mind: one request of each kind that uses
\* the token cache.
NextConc ==
    \/ Tick
    \/ \E c \in Workers :
          \/ text_to_speech(c, Some(Text(1)))
          \/ get_available_voices(c)
          \/ TokenStep(c)
          \/ AdapterStep(c)
          \/ voices_call(c, {Catalog(SampleLocales)})

\* Every request on every input, within one minute.
NextRouter ==
    \E c \in Workers :
       \/ Idling(c) /\ \E arg \in GetArgs : text_to_speech(c, arg)
       \/ Idling(c) /\ \E data \in PostData : text_to_speech_post(c, data)
       \/ get_available_voices(c)
       \/ health_check(c)
       \/ TokenStep(c)
       \/ AdapterStep(c)
       \/ voices_call(c, SampleCatalogs)

\* /voices alone, on every catalog.
NextVoices ==
    \E c \in Workers :
       \/ get_available_voices(c)
       \/ TokenStep(c)
       \/ voices_call(c, SampleCatalogs)
       \/ voices_call_any(c)

Spec == Init /\ [][Next]_vars
SpecConc == InitConc /\ [][NextConc]_vars
SpecRouter == Init /\ [][NextRouter]_vars
SpecVoices == Init /\ [][NextVoices]_vars

----------------------------------------------------------------------------
\* The claims.

\* Credentials are configured: a subscription key is present.
CredentialsPresent == AZURE_SPEECH_KEY \notin {None, Some("")}

\* The provider selection of the specification.
PrimarySelected == USE_FREE_TTS = FALSE /\ CredentialsPresent

\* The request of worker c has been answered.
Served(c) == c \in workers /\ pc[c] = "idle" /\ req[c].kind # "none"

\* The upstream calls of a request.
Upstream(c) ==
    calls[c].issue + calls[c].azure + calls[c].free + calls[c].voices

\* C1: with credentials configured, once a token has been stored at time t
\* (its expiry is then t + 9 minutes), a later call of get_azure_token that
\* tests the cache before t + 9 returns that token and makes no issuance
\* call; one that tests it at t + 9 or later makes exactly one issuance call.
C1_CachedTokenServedUntilExpiry ==
    \A c \in workers :
       ( /\ CredentialsPresent
         /\ call[c] # None
         /\ Val(call[c]).tok # None
         /\ stored_at[Val(Val(call[c]).tok)] # None ) =>
          LET k == Val(call[c])
              t == Val(stored_at[Val(k.tok)])
          IN  /\ k.exp = Some(t + 9)
              /\ (k.at < t + 9) =>
                    /\ calls[c].issue = 0
                    /\ pc[c] # "token_issue"
                    /\ (pc[c] \in {"azure_post", "voices_get"}) =>
                          (token[c] = k.tok)
              /\ (k.at >= t + 9) =>
                    /\ calls[c].issue <= 1
                    /\ (pc[c] # "token_issue") => (calls[c].issue = 1)

\* C1, witness: a call that tested the cache at the expiry instant or later
\* and has made its one issuance call.
C1_Witness ==
    \E c \in workers :
       /\ call[c] # None
       /\ Val(call[c]).tok # None
       /\ stored_at[Val(Val(call[c]).tok)] # None
       /\ Val(call[c]).at >= Val(stored_at[Val(Val(call[c]).tok)]) + 9
       /\ calls[c].issue = 1

\* The two calls of get_azure_token of workers c and o ran concurrently
\* while no valid token was cached, and both are over: o had found no valid
\* token and was still inside get_azure_token when c tested the cache.
Raced(c, o) ==
    /\ c # o
    /\ call[c] # None
    /\ call[o] # None
    /\ Val(call[c]).peer # 0
    /\ Val(call[c]).peer = req[o].id
    /\ pc[c] \notin TokenPcs
    /\ pc[o] \notin TokenPcs

\* The test of the cache of worker c found no valid token, stated on what
\* the cache held then.
FoundNone(c) ==
    LET k == Val(call[c])
    IN  ~(k.tok # None /\ k.exp # None /\ k.at < Val(k.exp))

\* C2, as claimed: two concurrent callers with no valid token cached perform
\* exactly one issuance call in total.
C2_ExactlyOneIssuance ==
    \A c, o \in workers :
       Raced(c, o) => (calls[c].issue + calls[o].issue = 1)

\* C2, amended: each of two concurrent callers makes one issuance call if
\* its own test of the cache found no valid token and none otherwise, so one
\* or two issuance calls are performed in total: two when the later caller
\* tested the cache before the earlier one had stored its token and expiry.
C2_OneIssuancePerMiss ==
    \A c, o \in workers :
       Raced(c, o) =>
          /\ calls[o].issue = 1
          /\ calls[c].issue = (IF FoundNone(c) THEN 1 ELSE 0)
          /\ calls[c].issue + calls[o].issue \in {1, 2}

\* C2, witness: two concurrent callers, both over, two issuance calls.
C2_Witness ==
    \E c, o \in workers :
       Raced(c, o) /\ calls[c].issue + calls[o].issue = 2

\* C3: GET /speech, POST /speech and GET /voices take the Primary path
\* exactly when the override is false and a key is present, and the Fallback
\* path otherwise; GET /health reports using_free_tts = true exactly when
\* Fallback is selected.
C3_ProviderSelection ==
    \A c \in workers :
       /\ (req[c].kind \in {"GET /speech", "POST /speech", "GET /voices"}) =>
             /\ (route[c].path = "none") => (Served(c) /\ resp[c].status = 400)
             /\ (route[c].path = "Primary") <=> (route[c].path # "none" /\ PrimarySelected)
             /\ (route[c].path = "Fallback") <=> (route[c].path # "none" /\ ~PrimarySelected)
             /\ (pc[c] \in TokenPcs \cup {"azure_post", "voices_get"}) => PrimarySelected
             /\ (pc[c] = "free_get") => ~PrimarySelected
             /\ PrimarySelected => (calls[c].free = 0)
             /\ ~PrimarySelected =>
                   (calls[c].issue = 0 /\ calls[c].azure = 0 /\ calls[c].voices = 0)
       /\ (req[c].kind = "GET /health" /\ Served(c)) =>
             /\ resp[c].body.using_free_tts = ~PrimarySelected
             /\ (~CredentialsPresent) => (resp[c].body.using_free_tts = TRUE)

\* C3, witness: /health answered with no key configured and the override
\* off.
C3_Witness ==
    \E c \in workers :
       /\ req[c].kind = "GET /health"
       /\ Served(c)
       /\ AZURE_SPEECH_KEY = None
       /\ USE_FREE_TTS = FALSE
       /\ resp[c].body.using_free_tts = TRUE

\* C4: GET /speech answers 400 and makes no upstream call when the text is
\* missing or has length 0 or length 1001 or more; a text of 1 to 1000
\* characters passes validation and reaches the selected adapter.
C4_GetSpeechValidation ==
    \A c \in workers :
       (req[c].kind = "GET /speech") =>
          LET n == IF req[c].arg = None THEN 0 ELSE Len(Val(req[c].arg))
          IN  /\ (n = 0 \/ n >= 1001) =>
                    /\ Served(c)
                    /\ resp[c].status = 400
                    /\ "error" \in DOMAIN resp[c].body
                    /\ Upstream(c) = 0
                    /\ route[c].adapter = "none"
              /\ (n >= 1 /\ n <= 1000) =>
                    /\ resp[c].status # 400
                    /\ route[c].text = Val(req[c].arg)
                    /\ route[c].adapter =
                          (IF PrimarySelected THEN "synthesize_speech_azure"
                           ELSE "synthesize_speech_free")

\* C4, witness: a text of exactly 1000 characters has reached an adapter.
C4_Witness ==
    \E c \in workers :
       /\ req[c].kind = "GET /speech"
       /\ req[c].arg # None
       /\ Len(req[c].text) = 1000
       /\ route[c].adapter # "none"

\* C5, as claimed: POST /speech with a text that is empty or longer than
\* 1000 characters is answered 400, and no adapter is ever invoked with such
\* a text.
C5_NoAdapterCallOnInvalidText ==
    \A c \in workers :
       /\ (route[c].adapter # "none") =>
             (route[c].text # "" /\ Len(route[c].text) <= 1000)
       /\ ( /\ req[c].kind = "POST /speech"
            /\ req[c].arg # None
            /\ "text" \in DOMAIN Val(req[c].arg)
            /\ (Val(req[c].arg).text = "" \/ Len(Val(req[c].arg).text) > 1000) ) =>
             (Served(c) /\ resp[c].status = 400)

\* C6, as claimed: a POST /speech served by Fallback answers voice
\* "free-tts"; served by Primary it answers the requested voice, or
\* "en-US-JennyNeural" when none was given.
C6_PostVoiceLabel ==
    \A c \in workers :
       (req[c].kind = "POST /speech" /\ Served(c) /\ resp[c].status = 200) =>
          resp[c].body.voice =
             (IF ~PrimarySelected THEN "free-tts"
              ELSE IF "voice" \in DOMAIN Val(req[c].arg)
                   THEN Val(req[c].arg).voice
                   ELSE "en-US-JennyNeural")

\* The request of worker c ended on a failed token issuance.
IssuanceFailed(c) ==
    /\ Served(c)
    /\ call[c] # None
    /\ calls[c].issue = 1
    /\ calls[c].failed = 1
    /\ calls[c].azure = 0
    /\ calls[c].voices = 0

\* C7: when the issuance call fails, get_azure_token fails with an error
\* and the cached token and expiry are what they were before the call, so
\* there is still no valid token and the next call issues again.
C7_FailedIssuanceCachesNothing ==
    \A c \in workers :
       IssuanceFailed(c) =>
          /\ resp[c].status = 500
          /\ azure_token = Val(call[c]).tok
          /\ token_expiry = Val(call[c]).exp
          /\ ~(azure_token # None /\ token_expiry # None
                 /\ now < Val(token_expiry))

\* C7, witness: an issuance failed while an expired token was cached.
C7_Witness ==
    \E c \in workers :
       IssuanceFailed(c) /\ Val(call[c]).tok # None

\* C8: a GET /speech or POST /speech request makes at most one issuance
\* call and at most one synthesis call; once an upstream call has failed the
\* request is over, answered 500 {error}, and a Primary request never calls
\* the Fallback provider.
C8_NoRetries ==
    \A c \in workers :
       (req[c].kind \in {"GET /speech", "POST /speech"}) =>
          /\ calls[c].issue <= 1
          /\ calls[c].azure + calls[c].free <= 1
          /\ calls[c].failed <= 1
          /\ (calls[c].failed = 1) =>
                /\ Served(c)
                /\ resp[c].status = 500
                /\ "error" \in DOMAIN resp[c].body
          /\ (calls[c].issue = 1 /\ calls[c].failed = 1 /\ calls[c].azure = 0) =>
                (Upstream(c) = 1)
          /\ (route[c].path = "Primary") => (calls[c].free = 0)

\* C8, witness: an issuance that succeeded, then a synthesis call that
\* failed.
C8_Witness ==
    \E c \in workers :
       /\ req[c].kind \in {"GET /speech", "POST /speech"}
       /\ calls[c].issue = 1
       /\ calls[c].azure = 1
       /\ calls[c].failed = 1
       /\ resp[c].status = 500

\* The locales of the model that start with "en-".
EnglishLocales ==
    {"en-US", "en-GB", "en-AU", "en-IN", "en-CA", "en-NZ", "en-ZA", "en-IE",
     "en-"}

\* The positions of the English entries of a catalog.
English(catalog) ==
    {i \in 1..Len(catalog) : catalog[i].Locale \in EnglishLocales}

\* C9: when Primary is selected and the catalog call succeeds, GET /voices
\* answers the first min(10, k) of the k entries whose Locale starts with
\* "en-", in catalog order, and nothing else.
C9_FirstTenEnglishVoices ==
    \A c \in workers :
       ( /\ req[c].kind = "GET /voices"
         /\ Served(c)
         /\ voices[c] # None ) =>
          LET catalog == Val(voices[c])
              E == English(catalog)
              k == Cardinality(E)
              list == resp[c].body
          IN  /\ PrimarySelected
              /\ resp[c].status = 200
              /\ Len(list) = (IF k < 10 THEN k ELSE 10)
              /\ \A j \in 1..Len(list) :
                    \E i \in E :
                       /\ Cardinality({e \in E : e <= i}) = j
                       /\ list[j] = catalog[i]

\* C9, witness: the catalog of 15 entries, 12 of them English, answered
\* with 10 entries.
C9_Witness ==
    \E c \in workers :
       /\ req[c].kind = "GET /voices"
       /\ Served(c)
       /\ voices[c] = Some(Catalog(SampleLocales))
       /\ Len(Val(voices[c])) = 15
       /\ Cardinality(English(Val(voices[c]))) = 12
       /\ Len(resp[c].body) = 10

\* C10, as claimed, and only for the states in which no caller stands
\* between the store of the token (app.py:40) and the store of its expiry
\* (app.py:42): the cache is empty, or the expiry is the one computed for
\* the cached token's own issuance, 9 minutes after that token was stored.
C10_TokenPairedWithOwnExpiry ==
    (\A c \in workers : pc[c] # "token_expiry") =>
       \/ azure_token = None /\ token_expiry = None
       \/ /\ azure_token # None
          /\ token_expiry # None
          /\ stored_at[Val(azure_token)] # None
          /\ Val(token_expiry) = Val(stored_at[Val(azure_token)]) + 9

====
